---- MODULE Spec2Model ----
(***************************************************************************)
(* sinfonia: a terminal supervisor that runs several named commands,       *)
(* starts them in dependency order, keeps a bounded log buffer per command *)
(* and lets the operator filter, search, stop and restart them.            *)
(*                                                                         *)
(* The module holds these state machines over one set of variables:        *)
(*   Spec          the process lifecycle and the per-process log buffers   *)
(*   SpecGroup     the lifecycle with the group toggle                     *)
(*   SpecPass      the lifecycle around the recheck pass, on two           *)
(*                 configurations with more logged entries                 *)
(*   SpecSort      sortCommandsByDependencies over dependency graphs       *)
(*   SpecView      the logs on the screen under selection and search       *)
(*   SpecNav       navigateFilter over the configurations the loader builds*)
(*   SpecSearch    the search box and filterLogs                           *)
(*   SpecLog       the LogManager with a log file, and getAllLogs          *)
(*   SpecFlush     the queued file-logging pipeline of src/index.ts        *)
(*   SpecShutdown  the lifecycle with the shutdown triggers and Ctrl+C     *)
(***************************************************************************)
EXTENDS Integers, Sequences, FiniteSets, TLC

VARIABLES
    cfg,               \* index of the command configuration of this run
    started,           \* ProcessManager.start() has run
    instances,         \* per command: the OS processes spawned so far, each alive, signalled,
                       \* failed, or ended with its exit code or signal
    processes,         \* ProcessState.processes: per command the tracked instance (0: none)
    processStates,     \* ProcessState.processStates
    dependencyReady,   \* ProcessState.dependencyReady: per command the dependencies seen ready
    fresh,             \* history: the pairs <<c, d>> whose flag of c for d was set by a line of
                       \* the tracked process of d, with d not started again since
    pendingProcesses,  \* ProcessState.pendingProcesses, in insertion order
    logBuffers,        \* LogState.logBuffers
    appended,          \* per command: how many entries addLog has pushed so far
    sortIn,            \* SpecSort: the graph given to sortCommandsByDependencies
    sortOut,           \* SpecSort: its result
    navCfg,            \* SpecNav: the loader input (commands and explicit groups)
    currentFilter,     \* SearchState.currentFilter
    navDowns,          \* SpecNav: 'down' steps taken
    navUps,            \* SpecNav: 'up' steps taken after them
    searchMode,        \* SearchState.searchMode
    searchText,        \* SearchState.searchText
    searchBuffer,      \* SearchState.searchBuffer
    filterIn,          \* SpecSearch: the entries given to filterLogs
    filterOut,         \* SpecSearch: the last result of filterLogs
    logFile,           \* LogState.logFile (null: file logging off)
    logFlushInterval,  \* LogState.logFlushInterval: the flush timer is set
    logQueue,          \* LogState.logQueue
    isWritingLogs,     \* LogState.isWritingLogs
    logPromiseQueue,   \* LogState.logPromiseQueue: the tasks chained and not yet run
    writing,           \* the appendFile call in flight (<<>>: none)
    fileWritable,      \* the log file accepts writes
    queued,            \* history: the entries handed to queueLog, in the order of the calls
    disk,              \* the entries in the log file written by flushLogs, in file order
    written,           \* entries written to the log file
    now,               \* Date.now()
    isCleaningUp,      \* ProcessManager.isCleaningUp
    exited,            \* process.exit has been called
    timerCancels,      \* clearInterval calls of cleanup
    termSignals,       \* kill("SIGTERM") calls of cleanup
    dumps              \* console dumps of the buffered logs

lifeVars == <<cfg, started, instances, processes, processStates, dependencyReady, fresh,
              pendingProcesses, logBuffers, appended>>
sortVars == <<sortIn, sortOut>>
navVars == <<navCfg, currentFilter, navDowns, navUps>>
searchVars == <<searchMode, searchText, searchBuffer, filterIn, filterOut>>
fileVars == <<logFile, logFlushInterval, logQueue, isWritingLogs, logPromiseQueue,
              writing, fileWritable, queued, disk, written, now>>
shutVars == <<isCleaningUp, exited, timerCancels, termSignals, dumps>>
vars == <<lifeVars, sortVars, navVars, searchVars, fileVars, shutVars>>

(***************************************************************************)
(* Bounds of the model.                                                    *)
(***************************************************************************)
\* entries logged in a run, over all commands
MaxAppends == 4
\* the configured buffer size (maxLogsPerProcess)
maxLogsPerProcess == 2

(***************************************************************************)
(* Sequence helpers.                                                       *)
(***************************************************************************)
Range(s) == {s[i] : i \in DOMAIN s}
Min(a, b) == IF a < b THEN a ELSE b
RECURSIVE FoldSeq(_, _, _)
FoldSeq(Op(_, _), acc, s) ==
    IF s = <<>> THEN acc ELSE FoldSeq(Op, Op(acc, Head(s)), Tail(s))

(***************************************************************************)
(* Command configurations of the lifecycle runs: three commands in         *)
(* declaration order, their dependsOn lists and the dependencies for which *)
(* they declare a readyPattern.                                            *)
(***************************************************************************)
Commands == <<"A", "B", "C">>
Names == Range(Commands)
Unknown == "X"

Deps(a, b, c) == [n \in Names |-> CASE n = "A" -> a [] n = "B" -> b [] OTHER -> c]
Command(dependsOn, readyPatterns) ==
    [dependsOn |-> dependsOn, readyPatterns |-> readyPatterns]
Configs == <<
    Command(Deps(<<>>, <<"A">>, <<"B">>), Deps({}, {}, {})),
    Command(Deps(<<>>, <<"A">>, <<"B">>), Deps({}, {"A"}, {})),
    Command(Deps(<<>>, <<"A">>, <<"B">>), Deps({}, {}, {"B"})),
    Command(Deps(<<>>, <<"A">>, <<"B">>), Deps({}, {"A"}, {"B"})),
    Command(Deps(<<>>, <<"A">>, <<"A">>), Deps({}, {"A"}, {"A"})),
    Command(Deps(<<"B">>, <<>>, <<"A", "B">>), Deps({}, {}, {"B"})),
    Command(Deps(<<>>, <<"C">>, <<Unknown>>), Deps({}, {"C"}, {})) >>

dependsOn(name) == Configs[cfg].dependsOn[name]
hasReadyPattern(name, dep) == dep \in Configs[cfg].readyPatterns[name]

(***************************************************************************)
(* The lifecycle state as one record, so that handlers compose.            *)
(***************************************************************************)
Cur == [instances |-> instances, processes |-> processes,
        processStates |-> processStates, dependencyReady |-> dependencyReady,
        pendingProcesses |-> pendingProcesses, logBuffers |-> logBuffers,
        appended |-> appended]

\* A deleted entry of the pending Set that a suspended iterator may still pass.
Tomb == "-"
SetAdd(s, x) == IF x \in Range(s) THEN s ELSE Append(s, x)
SetDelete(s, x) == [i \in DOMAIN s |-> IF s[i] = x THEN Tomb ELSE s[i]]
Compact(s) == SelectSeq(s, LAMBDA x : x # Tomb)

(***************************************************************************)
(* LogManager.addLog: push, then drop the oldest entry when over capacity. *)
(***************************************************************************)
addLogNoShift(S, name, data) ==
    [S EXCEPT !.logBuffers[name] = Append(@, [data |-> data, n |-> S.appended[name] + 1]),
              !.appended[name] = @ + 1]

addLog(S, name, data) ==
    LET pushed == Append(S.logBuffers[name], [data |-> data, n |-> S.appended[name] + 1])
        buffer == IF Len(pushed) > maxLogsPerProcess THEN Tail(pushed) ELSE pushed
    IN  [S EXCEPT !.logBuffers[name] = buffer, !.appended[name] = @ + 1]

(***************************************************************************)
(* LifecycleManager.startProcess                                           *)
(***************************************************************************)
\* isProcessRunning that takes a name that is no configured command for running
isProcessRunningUnknown(S, dep) == dep \notin Names \/ S.processStates[dep] = "running"
isProcessRunning(S, dep) == dep \in Names /\ S.processStates[dep] = "running"
hasSeenPattern(S, name, dep) == dep \in S.dependencyReady[name]

startUnreadyNoPattern(S, name, dep) == ~isProcessRunning(S, dep)
startUnreadyNotRunning(S, name, dep) ==
    hasReadyPattern(name, dep) /\ ~hasSeenPattern(S, name, dep)

\* the filter of startProcess
startUnready(S, name, dep) ==
    IF hasReadyPattern(name, dep)
    THEN ~isProcessRunning(S, dep) \/ ~hasSeenPattern(S, name, dep)
    ELSE ~isProcessRunning(S, dep)

\* the filter of startPendingProcesses
pendingUnready(S, name, dep) ==
    IF hasReadyPattern(name, dep)
          /\ (~isProcessRunning(S, dep) \/ ~hasSeenPattern(S, name, dep))
    THEN TRUE
    ELSE ~isProcessRunning(S, dep)

spawn(S, name) ==
    [S EXCEPT !.instances[name] = Append(@, "alive"),
              !.processes[name] = Len(S.instances[name]) + 1,
              !.processStates[name] = "running"]

startProcess(S, name) ==
    IF name \notin Names THEN S
    ELSE LET unreadyDeps == SelectSeq(dependsOn(name), LAMBDA dep : startUnready(S, name, dep))
         IN  IF Len(dependsOn(name)) > 0 /\ Len(unreadyDeps) > 0
             THEN addLog([S EXCEPT !.pendingProcesses = SetAdd(@, name)], name,
                         <<"Waiting for dependencies">> \o unreadyDeps)
             ELSE spawn(S, name)

(***************************************************************************)
(* LifecycleManager.startPendingProcesses.  The pass is an async loop over *)
(* the pending Set: it runs synchronously up to and including the first    *)
(* command it starts, is suspended at the await, and goes on from its      *)
(* iterator position when it is resumed.  passSegment is one such stretch  *)
(* from position i: it yields the state, the next position, and whether    *)
(* the loop has ended.                                                     *)
(***************************************************************************)
RECURSIVE passSegment(_, _)
passSegment(S, i) ==
    IF i > Len(S.pendingProcesses) THEN [S |-> S, i |-> i, done |-> TRUE]
    ELSE LET name == S.pendingProcesses[i]
             unreadyDeps == SelectSeq(dependsOn(name),
                                      LAMBDA dep : pendingUnready(S, name, dep))
         IN  IF name = Tomb THEN passSegment(S, i + 1)
             ELSE IF Len(unreadyDeps) = 0
             THEN [S |-> startProcess([S EXCEPT !.pendingProcesses = SetDelete(@, name)], name),
                   i |-> i + 1, done |-> FALSE]
             ELSE passSegment(S, i + 1)

\* The suspended passes resume in the order they were suspended, until all end.
RECURSIVE drainPasses(_, _)
drainPasses(S, queue) ==
    IF queue = <<>> THEN S
    ELSE LET r == passSegment(S, Head(queue))
         IN  drainPasses(r.S, IF r.done THEN Tail(queue) ELSE Append(Tail(queue), r.i))

\* one invocation of startPendingProcesses run to its end with no other pass
\* in progress
startPendingProcesses(S) ==
    LET r == passSegment(S, 1)
    IN  drainPasses(r.S, IF r.done THEN <<>> ELSE <<r.i>>)

(***************************************************************************)
(* setupProcessHandlers.  An output chunk is described by the set of       *)
(* dependents whose readyPattern it matches.                               *)
(***************************************************************************)
PatternDependents(name) ==
    {w \in Names : name \in Range(dependsOn(w)) /\ hasReadyPattern(w, name)}
ChunkData(matched) == <<"stdout">> \o SelectSeq(Commands, LAMBDA w : w \in matched)

\* commands.forEach of the stdout handler, from command k on; queue holds the
\* iterator positions of the passes suspended so far.
RECURSIVE matchLoop(_, _, _, _, _)
matchLoop(S, name, matched, k, queue) ==
    IF k > Len(Commands) THEN drainPasses(S, queue)
    ELSE LET w == Commands[k]
             set == [S EXCEPT !.dependencyReady[w] = @ \cup {name}]
             r == passSegment(set, 1)
         IN  IF w \in PatternDependents(name) /\ w \in matched
             THEN matchLoop(r.S, name, matched, k + 1,
                            IF r.done THEN queue ELSE Append(queue, r.i))
             ELSE matchLoop(S, name, matched, k + 1, queue)

onStdout(S, name, matched) ==
    matchLoop(addLog(S, name, ChunkData(matched)), name, matched, 1, <<>>)

\* the stderr handler logs the chunk and tests no pattern against it
ErrChunkData(matched) == <<"stderr">> \o SelectSeq(Commands, LAMBDA w : w \in matched)
onStderr(S, name, matched) == addLog(S, name, ErrChunkData(matched))

onErrorStopAll(S, name) ==
    [addLog(S, name, <<"Process error">>)
        EXCEPT !.processStates = [n \in Names |-> "stopped"]]

onError(S, name) ==
    [addLog(S, name, <<"Process error">>) EXCEPT !.processStates[name] = "stopped"]

ExitCodes == {"2"}
Signals == {"SIGTERM"}
keepDependents(S, name) == S

\* an exit handler that resets every seen-ready flag
resetDependentsAll(S, name) ==
    [S EXCEPT !.dependencyReady = [c \in Names |-> {}]]

\* the exit handler's reset of the ready flags of the commands that depend on name
resetDependents(S, name) ==
    [S EXCEPT !.dependencyReady =
        [c \in Names |-> IF name \in Range(dependsOn(c)) THEN @[c] \ {name} ELSE @[c]]]

onExit(S, name, outcome) ==
    LET logged == IF outcome \in ExitCodes
                  THEN addLog(S, name, <<"Process exited with code", outcome>>)
                  ELSE addLog(S, name, <<"Process killed with signal", outcome>>)
    IN  resetDependents([logged EXCEPT !.processStates[name] = "stopped"], name)

(***************************************************************************)
(* toggleProcess, restartProcess                                           *)
(***************************************************************************)
\* ChildProcess.kill on the tracked instance: an instance that has ended is
\* not signalled.
kill(S, name) ==
    IF S.instances[name][S.processes[name]] = "alive"
    THEN [S EXCEPT !.instances[name][S.processes[name]] = "signalled"]
    ELSE S

toggleProcessOneWay(S, name) ==
    IF S.processes[name] = 0 THEN S
    ELSE [addLog(kill(S, name), name, <<"Process stopped">>)
             EXCEPT !.processStates[name] = "stopped"]

toggleProcess(S, name) ==
    IF S.processes[name] = 0 THEN S
    ELSE IF S.processStates[name] = "running"
    THEN [addLog(kill(S, name), name, <<"Process stopped">>)
             EXCEPT !.processStates[name] = "stopped"]
    ELSE addLog(startProcess(S, name), name, <<"Process started">>)

\* restartProcess that starts the command again without signalling the tracked process
restartProcessNoKill(S, name) ==
    IF S.processes[name] = 0 THEN S
    ELSE addLog(startProcess(S, name), name, <<"Process restarted">>)

restartProcessAlways(S, name) ==
    addLog(startProcess(IF S.processes[name] = 0 THEN S ELSE kill(S, name), name),
           name, <<"Process restarted">>)

restartProcess(S, name) ==
    IF S.processes[name] = 0 THEN S
    ELSE addLog(startProcess(kill(S, name), name), name, <<"Process restarted">>)

(***************************************************************************)
(* sortCommandsByDependencies: depth-first, dependencies before the        *)
(* command, over the commands cmds with the dependsOn lists deps.          *)
(***************************************************************************)
RECURSIVE visit(_, _, _, _)
RECURSIVE visitDeps(_, _, _, _, _)
visitDeps(cmds, deps, ds, k, acc) ==
    IF k > Len(ds) THEN acc
    ELSE visitDeps(cmds, deps, ds, k + 1,
                   IF ds[k] \in Range(cmds) THEN visit(cmds, deps, ds[k], acc) ELSE acc)

visitPushFirst(cmds, deps, command, acc) ==
    IF command \in acc.visited THEN acc
    ELSE visitDeps(cmds, deps, deps[command], 1,
                   [visited |-> acc.visited \cup {command},
                    sorted |-> Append(acc.sorted, command)])

visit(cmds, deps, command, acc) ==
    IF command \in acc.visited THEN acc
    ELSE LET marked == [acc EXCEPT !.visited = @ \cup {command}]
             after == visitDeps(cmds, deps, deps[command], 1, marked)
         IN  [after EXCEPT !.sorted = Append(@, command)]

RECURSIVE visitAll(_, _, _, _)
visitAllFirst(cmds, deps, k, acc) ==
    IF k > Len(cmds) THEN acc
    ELSE visit(cmds, deps, cmds[k], acc)

visitAll(cmds, deps, k, acc) ==
    IF k > Len(cmds) THEN acc
    ELSE visitAll(cmds, deps, k + 1, visit(cmds, deps, cmds[k], acc))

sortCommandsByDependencies(cmds, deps) ==
    visitAll(cmds, deps, 1, [visited |-> {}, sorted |-> <<>>]).sorted

(***************************************************************************)
(* The lifecycle machine.                                                  *)
(***************************************************************************)
\* the value null (no selection, no log file)
null == "<null>"

\* The run stays within the bounds.
FitsWithin(S, bound) == FoldSeq(LAMBDA sum, n : sum + S.appended[n], 0, Commands) <= bound
Fits(S) == FitsWithin(S, MaxAppends)

\* entries pushed so far, over all commands
Total(count) == FoldSeq(LAMBDA sum, n : sum + count[n], 0, Commands)

\* the entries a handler has logged also go to the log file when file logging
\* is on; the file accepts every write in the lifecycle runs
FileCommit(S) ==
    /\ written' = IF logFile = null THEN written
                  ELSE written + Total(S.appended) - Total(appended)
    /\ UNCHANGED <<logFile, logFlushInterval, logQueue, isWritingLogs, logPromiseQueue,
                   writing, fileWritable, queued, disk, now>>

\* The history of the seen-ready flags over a handler that ends in S and in
\* which the lines of tracked processes set the flags of the pairs in new: a
\* pair stays while its flag is set and its dependency is not spawned again.
Freshen(S, new) ==
    {p \in fresh \cup new :
        /\ p[2] \in S.dependencyReady[p[1]]
        /\ Len(S.instances[p[2]]) = Len(instances[p[2]])}

CommitWithin(S, new, bound) ==
    /\ ~exited
    /\ FitsWithin(S, bound)
    /\ instances' = S.instances
    /\ processes' = S.processes
    /\ processStates' = S.processStates
    /\ dependencyReady' = S.dependencyReady
    /\ fresh' = Freshen(S, new)
    /\ pendingProcesses' = Compact(S.pendingProcesses)
    /\ logBuffers' = S.logBuffers
    /\ appended' = S.appended
    /\ FileCommit(S)
    /\ UNCHANGED <<cfg, started, sortVars, navVars, searchVars, shutVars>>

CommitMatch(S, new) == CommitWithin(S, new, MaxAppends)
Commit(S) == CommitMatch(S, {})

IdleSort == sortIn = <<>> /\ sortOut = <<>>
\* file logging off (the default logFile of the constructor)
IdleFile ==
    /\ logFile = null /\ logFlushInterval = FALSE /\ logQueue = <<>>
    /\ isWritingLogs = FALSE /\ logPromiseQueue = <<>> /\ writing = <<>>
    /\ fileWritable = TRUE /\ written = 0 /\ now = 0
    /\ queued = <<>> /\ disk = <<>>
IdleShut ==
    /\ isCleaningUp = FALSE /\ exited = FALSE
    /\ timerCancels = 0 /\ termSignals = 0 /\ dumps = 0
IdleNav == navCfg = <<>> /\ currentFilter = "" /\ navDowns = 0 /\ navUps = 0
IdleSearch ==
    /\ searchMode = FALSE /\ searchText = <<>> /\ searchBuffer = <<>>
    /\ filterIn = <<>> /\ filterOut = <<>>

\* ProcessManager constructor: every command is recorded running, none is spawned.
Init ==
    /\ cfg \in DOMAIN Configs
    /\ started = FALSE
    /\ instances = [n \in Names |-> <<>>]
    /\ processes = [n \in Names |-> 0]
    /\ processStates = [n \in Names |-> "running"]
    /\ dependencyReady = [n \in Names |-> {}]
    /\ fresh = {}
    /\ pendingProcesses = <<>>
    /\ logBuffers = [n \in Names |-> <<>>]
    /\ appended = [n \in Names |-> 0]
    /\ IdleSort /\ IdleNav /\ IdleSearch /\ IdleFile /\ IdleShut

\* a startup loop that stops at the first command that falls into the pending set
startAllBlocking(S, sorted) ==
    FoldSeq(LAMBDA T, name :
                IF Compact(T.S.pendingProcesses) # <<>> THEN T
                ELSE [S |-> startProcess(T.S, name), attempts |-> Append(T.attempts, name)],
            [S |-> S, attempts |-> <<>>], sorted)

\* sortedCommands.forEach of ProcessManager.start: one startProcess per entry,
\* each run to its end before the next; attempts records the calls in order
startAll(S, sorted) ==
    FoldSeq(LAMBDA T, name :
                [S |-> startProcess(T.S, name), attempts |-> Append(T.attempts, name)],
            [S |-> S, attempts |-> <<>>], sorted)

\* ProcessManager.start: one start attempt per command, in sorted order.
ManagerStart ==
    /\ ~started
    /\ ~exited
    /\ started' = TRUE
    /\ LET S == startAll(Cur, sortCommandsByDependencies(Commands, Configs[cfg].dependsOn)).S
       IN  /\ Fits(S)
           /\ instances' = S.instances
           /\ processes' = S.processes
           /\ processStates' = S.processStates
           /\ dependencyReady' = S.dependencyReady
           /\ fresh' = Freshen(S, {})
           /\ pendingProcesses' = Compact(S.pendingProcesses)
           /\ logBuffers' = S.logBuffers
           /\ appended' = S.appended
           /\ FileCommit(S)
    /\ UNCHANGED <<cfg, sortVars, navVars, searchVars, shutVars>>

\* instance i of name can still deliver notifications
Emits(name, i) ==
    started /\ i \in DOMAIN instances[name] /\ instances[name][i] \in {"alive", "signalled"}

\* a stdout chunk of an instance of name, matching the patterns of matched
Stdout(name) ==
    \E i \in DOMAIN instances[name] : \E matched \in SUBSET PatternDependents(name) :
        /\ Emits(name, i)
        /\ CommitMatch(onStdout(Cur, name, matched),
                       IF i = processes[name] THEN {<<w, name>> : w \in matched} ELSE {})

\* a stderr chunk of an instance of name, matching the patterns of matched
Stderr(name) ==
    \E i \in DOMAIN instances[name] : \E matched \in SUBSET PatternDependents(name) :
        /\ Emits(name, i)
        /\ Commit(onStderr(Cur, name, matched))

ProcError(name) ==
    \E i \in DOMAIN instances[name] :
        /\ Emits(name, i)
        /\ Commit(onError([Cur EXCEPT !.instances[name][i] = "failed"], name))

Exit(name) ==
    \E i \in DOMAIN instances[name] : \E outcome \in ExitCodes \cup Signals :
        /\ Emits(name, i)
        /\ Commit(onExit([Cur EXCEPT !.instances[name][i] = outcome], name, outcome))

ToggleProcess(name) ==
    /\ started
    /\ Commit(toggleProcess(Cur, name))

RestartProcess(name) ==
    /\ started
    /\ Commit(restartProcess(Cur, name))

Next ==
    \/ ManagerStart
    \/ \E name \in Names : Stdout(name)
    \/ \E name \in Names : Stderr(name)
    \/ \E name \in Names : ProcError(name)
    \/ \E name \in Names : Exit(name)
    \/ \E name \in Names : ToggleProcess(name)
    \/ \E name \in Names : RestartProcess(name)

Spec == Init /\ [][Next]_vars

(***************************************************************************)
(* Vocabulary of the lifecycle properties.                                 *)
(***************************************************************************)
Spawned(name) == Len(instances[name]) > 0
SpawnedInStep(name) == Len(instances'[name]) > Len(instances[name])
Pending(name) == name \in Range(pendingProcesses)
Tracked(name) == processes[name] # 0
LastData(S, name) == S.logBuffers[name][Len(S.logBuffers[name])].data

\* the step runs the stdout handler of dep on a chunk matching name's pattern for dep
MatchInStep(dep, name) ==
    \E j \in DOMAIN logBuffers'[dep] :
        /\ logBuffers'[dep][j].n > appended[dep]
        /\ Head(logBuffers'[dep][j].data) = "stdout"
        /\ name \in Range(Tail(logBuffers'[dep][j].data))

\* dependency dep of name is satisfied: recorded running and, where name has a
\* readyPattern for it, seen ready
Satisfied(S, name, dep) ==
    /\ dep \in Names
    /\ S.processStates[dep] = "running"
    /\ hasReadyPattern(name, dep) => dep \in S.dependencyReady[name]

(***************************************************************************)
(* C1  For every process and every number N of appends to its log buffer   *)
(* with capacity K = maxLogsPerProcess, the buffer holds exactly the last  *)
(* min(N, K) appended entries in insertion order, and its length never     *)
(* exceeds K.  Entry number n is the n-th entry appended to that buffer.   *)
(***************************************************************************)
C1_RingBuffer ==
    \A name \in Names :
        LET buffer == logBuffers[name]
            kept == Min(appended[name], maxLogsPerProcess)
        IN  /\ Len(buffer) <= maxLogsPerProcess
            /\ Len(buffer) = kept
            /\ \A j \in 1..Len(buffer) : buffer[j].n = appended[name] - kept + j

\* a buffer that has evicted an entry
C1_Witness ==
    \E name \in Names :
        appended[name] > maxLogsPerProcess /\ Len(logBuffers[name]) = maxLogsPerProcess

C3_StartsOnceDependencyRuns ==
    [][\A c \in Names : \A d \in Names :
          (/\ dependsOn(c) = <<d>> /\ ~hasReadyPattern(c, d)
           /\ Pending(c)
           /\ processStates[d] # "running"
           /\ processStates'[d] = "running") => SpawnedInStep(c)]_vars

(***************************************************************************)
(* C4  Dependency chains block transitively: if C depends on B and B       *)
(* depends on A, C is not spawned before both A and B have been spawned.   *)
(***************************************************************************)
C4_ChainBlocks ==
    \A a \in Names : \A b \in Names : \A c \in Names :
        (a \in Range(dependsOn(b)) /\ b \in Range(dependsOn(c)) /\ Spawned(c)) =>
            (Spawned(a) /\ Spawned(b))

(***************************************************************************)
(* C6  Toggling a running, tracked process twice returns it to running:    *)
(* in every reachable state, for every tracked process recorded running,   *)
(* the first toggleProcess call leaves it stopped, and a second call right *)
(* after it leaves it running, provided each of its dependencies is        *)
(* satisfied when the second call is made.                                 *)
(***************************************************************************)
C6_ToggleTwice ==
    \A name \in Names :
        (Tracked(name) /\ processStates[name] = "running") =>
            LET once == toggleProcess(Cur, name)
                twice == toggleProcess(once, name)
            IN  /\ once.processStates[name] = "stopped"
                /\ (\A dep \in Range(dependsOn(name)) : Satisfied(once, name, dep)) =>
                       twice.processStates[name] = "running"

\* a run in which a process was stopped and started again by two toggles
C6_Witness ==
    \E name \in Names :
        LET buffer == logBuffers[name]
        IN  /\ Len(buffer) >= 2
            /\ buffer[Len(buffer) - 1].data = <<"Process stopped">>
            /\ buffer[Len(buffer)].data = <<"Process started">>
            /\ processStates[name] = "running"
            /\ Len(instances[name]) = 2

(***************************************************************************)
(* C7  Each toggleProcess call on a tracked process appends exactly one    *)
(* entry to that process's buffer: a step that logs "Process stopped" or   *)
(* "Process started" for a process logs nothing else for it.               *)
(***************************************************************************)
C7_ToggleLogsOnce ==
    [][\A name \in Names :
          (/\ appended'[name] > appended[name]
           /\ logBuffers'[name][Len(logBuffers'[name])].data
                  \in {<<"Process stopped">>, <<"Process started">>}) =>
              appended'[name] = appended[name] + 1]_vars

(***************************************************************************)
(* C10  The step that delivers the exit notification of an instance of a   *)
(* process with exit code k appends exactly one entry, "Process exited     *)
(* with code k", to that process's buffer, leaves the process stopped,     *)
(* and leaves the seen-ready flag for this process false in every command  *)
(* that depends on it.                                                     *)
(***************************************************************************)
C10_ExitWithCode ==
    [][\A name \in Names : \A i \in DOMAIN instances[name] : \A k \in ExitCodes :
          (instances[name][i] # k /\ instances'[name][i] = k) =>
              /\ appended'[name] = appended[name] + 1
              /\ logBuffers'[name][Len(logBuffers'[name])] =
                     [data |-> <<"Process exited with code", k>>, n |-> appended'[name]]
              /\ processStates'[name] = "stopped"
              /\ \A c \in Names :
                     name \in Range(dependsOn(c)) => name \notin dependencyReady'[c]]_vars

\* a process that ended with an exit code after a dependent had seen it ready
C10_Witness ==
    \E name \in Names : \E c \in Names : \E k \in ExitCodes :
        /\ k \in Range(instances[name])
        /\ appended[name] > 0
        /\ LastData(Cur, name) = <<"Process exited with code", k>>
        /\ processStates[name] = "stopped"
        /\ dependsOn(c) = <<name>> /\ hasReadyPattern(c, name)
        /\ Len(instances[c]) = 1
        /\ name \notin dependencyReady[c]

(***************************************************************************)
(* C11  A command C is spawned only in a step in which every dependency D  *)
(* of C is recorded running and, for every D for which C declares a        *)
(* readyPattern, C's seen-ready flag for D is set; on the direct start     *)
(* path (start, toggle, restart) and on the recheck path alike.            *)
(***************************************************************************)
C11_SpawnOnlyWhenSatisfied ==
    [][\A c \in Names :
          SpawnedInStep(c) =>
              \A d \in Range(dependsOn(c)) :
                  /\ d \in Names
                  /\ processStates'[d] = "running"
                  /\ hasReadyPattern(c, d) => d \in dependencyReady'[c]]_vars

\* a command with two dependencies, one of them behind a readyPattern, was spawned
C11_Witness ==
    \E c \in Names :
        /\ Len(dependsOn(c)) = 2
        /\ \E d \in Range(dependsOn(c)) : hasReadyPattern(c, d)
        /\ Spawned(c)
        /\ processStates[c] = "running"

(***************************************************************************)
(* C12  start(name) is a no-op when the command is already running: with   *)
(* the tracked process of name alive and name recorded running, a start    *)
(* attempt spawns nothing and leaves the tracked handle, the recorded      *)
(* state, the pending set and the log buffers as they are.                 *)
(***************************************************************************)
C12_StartWhenRunning ==
    \A name \in Names :
        (/\ Tracked(name)
         /\ processStates[name] = "running"
         /\ instances[name][processes[name]] = "alive") =>
            LET S == startProcess(Cur, name)
            IN  /\ S.instances = instances
                /\ S.processes = processes
                /\ S.processStates = processStates
                /\ S.pendingProcesses = pendingProcesses
                /\ S.logBuffers = logBuffers

(***************************************************************************)
(* SpecGroup: the lifecycle machine with one group of two commands and the *)
(* group toggle of the control panel.                                      *)
(***************************************************************************)
Groups == [g |-> [name |-> "g", commands |-> <<"A", "B">>]]
GroupConfigs == {2}

\* ProcessManager.toggleGroup: allRunning is read once, the members in order
toggleMember(allRunning, S, cmdName) ==
    IF allRunning THEN toggleProcess(S, cmdName)
    ELSE IF S.processStates[cmdName] = "stopped" THEN toggleProcess(S, cmdName)
    ELSE S

toggleGroup(S, groupName) ==
    IF groupName \notin DOMAIN Groups THEN S
    ELSE LET group == Groups[groupName]
             allRunning == \A cmd \in Range(group.commands) :
                               S.processStates[cmd] = "running"
         IN  FoldSeq(LAMBDA acc, cmdName : toggleMember(allRunning, acc, cmdName),
                     S, group.commands)

InitGroup == Init /\ cfg \in GroupConfigs

ToggleGroup(groupName) ==
    /\ started
    /\ Commit(toggleGroup(Cur, groupName))

NextGroup ==
    \/ ManagerStart
    \/ \E name \in Names : Stdout(name)
    \/ \E name \in Names : Stderr(name)
    \/ \E name \in Names : ProcError(name)
    \/ \E name \in Names : Exit(name)
    \/ \E name \in Names : ToggleProcess(name)
    \/ \E name \in Names : RestartProcess(name)
    \/ \E groupName \in DOMAIN Groups : ToggleGroup(groupName)

SpecGroup == InitGroup /\ [][NextGroup]_vars

(***************************************************************************)
(* C13  Group toggle is binary.  If every member of the group is recorded  *)
(* running, toggleGroup stops every member: each is signalled and marked   *)
(* stopped.  Otherwise it starts every member that is not running (a new   *)
(* instance, or the member waits in the pending set) and leaves a member   *)
(* that is running as it is: same instances, same handle, recorded running.*)
(***************************************************************************)
C13_GroupToggleBinary ==
    started =>
        \A g \in DOMAIN Groups :
            LET members == Range(Groups[g].commands)
                S == toggleGroup(Cur, g)
            IN  IF \A m \in members : processStates[m] = "running"
                THEN \A m \in members :
                         /\ S.processStates[m] = "stopped"
                         /\ processes[m] # 0
                         /\ S.instances[m][processes[m]] # "alive"
                ELSE \A m \in members :
                         IF processStates[m] = "running"
                         THEN /\ S.instances[m] = instances[m]
                              /\ S.processes[m] = processes[m]
                              /\ S.processStates[m] = "running"
                         ELSE \/ Len(S.instances[m]) > Len(instances[m])
                              \/ m \in Range(S.pendingProcesses)

(***************************************************************************)
(* SpecSort: sortCommandsByDependencies applied to the three commands      *)
(* under every assignment of dependsOn lists of at most MaxDeps entries.   *)
(***************************************************************************)
\* entries in one dependsOn list
MaxDeps == 2

IdleLife ==
    /\ cfg = 1
    /\ started = FALSE
    /\ instances = [n \in Names |-> <<>>]
    /\ processes = [n \in Names |-> 0]
    /\ processStates = [n \in Names |-> "running"]
    /\ dependencyReady = [n \in Names |-> {}]
    /\ fresh = {}
    /\ pendingProcesses = <<>>
    /\ logBuffers = [n \in Names |-> <<>>]
    /\ appended = [n \in Names |-> 0]

SeqsUpTo(set, max) == UNION {[1..k -> set] : k \in 0..max}
DepLists ==
    {ds \in SeqsUpTo(Names \cup {Unknown}, MaxDeps) :
        \A i \in DOMAIN ds : \A j \in DOMAIN ds : i # j => ds[i] # ds[j]}

InitSort ==
    /\ sortIn \in [Names -> DepLists]
    /\ sortOut = <<>>
    /\ IdleLife /\ IdleNav /\ IdleSearch /\ IdleFile /\ IdleShut

SortCommands ==
    /\ sortOut = <<>>
    /\ sortOut' = sortCommandsByDependencies(Commands, sortIn)
    /\ UNCHANGED <<sortIn, lifeVars, navVars, searchVars, fileVars, shutVars>>

NextSort == SortCommands

SpecSort == InitSort /\ [][NextSort]_vars

\* the commands reached from the commands of set along dependsOn
RECURSIVE DependencyClosure(_, _)
DependencyClosure(deps, set) ==
    LET more == set \cup {d \in Names : \E c \in set : d \in Range(deps[c])}
    IN  IF more = set THEN set ELSE DependencyClosure(deps, more)
Acyclic(deps) ==
    \A c \in Names : c \notin DependencyClosure(deps, {d \in Names : d \in Range(deps[c])})
Position(s, x) == CHOOSE i \in DOMAIN s : s[i] = x

(***************************************************************************)
(* C5  For every acyclic dependency graph over the configured commands,    *)
(* sortCommandsByDependencies returns a permutation of the commands in     *)
(* which every command comes after each of its direct dependencies.        *)
(***************************************************************************)
C5_SortRespectsDependencies ==
    (sortOut # <<>> /\ Acyclic(sortIn)) =>
        /\ Len(sortOut) = Len(Commands)
        /\ Range(sortOut) = Names
        /\ \A c \in Names : \A d \in Names :
               d \in Range(sortIn[c]) => Position(sortOut, d) < Position(sortOut, c)

\* a sorted acyclic chain declared in the reverse of its dependency order
C5_Witness ==
    /\ sortOut # <<>>
    /\ Acyclic(sortIn)
    /\ "B" \in Range(sortIn["A"])
    /\ "C" \in Range(sortIn["B"])
    /\ sortOut = <<"C", "B", "A">>

(***************************************************************************)
(* SpecNav: navigateFilter over the configurations the loader builds from  *)
(* a config file: commands with an optional group each, and an optional    *)
(* explicit groups list.                                                   *)
(***************************************************************************)
\* commands in a config file, and names in an explicit group's commands list
MaxNavCommands == 2
\* 'down' steps of a walk
MaxNav == 4

\* SearchState.currentFilter of the ALL entry (null)
NavNames == {"a", "b"}
NoGroup == ""
NavGroups == {"g"}

\* the commands of a config file: at least one, under distinct names
NavCommands ==
    {cmds \in SeqsUpTo([name : NavNames, group : NavGroups \cup {NoGroup}], MaxNavCommands) :
        /\ cmds # <<>>
        /\ \A i \in DOMAIN cmds : \A j \in DOMAIN cmds : i # j => cmds[i].name # cmds[j].name}
ExplicitGroups ==
    {[given |-> FALSE, groups |-> <<>>], [given |-> TRUE, groups |-> <<>>]}
        \cup {[given |-> TRUE, groups |-> <<[name |-> g, commands |-> l]>>] :
                 g \in NavGroups, l \in SeqsUpTo(NavNames, MaxNavCommands)}
NavInputs == [commands : NavCommands, explicit : ExplicitGroups]

\* autoGroups: one group per group name in order of first use, its commands
\* in declaration order
autoGroups(commands) ==
    LET add(groups, cmd) ==
            IF cmd.group = NoGroup THEN groups
            ELSE IF \E i \in DOMAIN groups : groups[i].name = cmd.group
            THEN [i \in DOMAIN groups |->
                     IF groups[i].name = cmd.group
                     THEN [groups[i] EXCEPT !.commands = Append(@, cmd.name)]
                     ELSE groups[i]]
            ELSE Append(groups, [name |-> cmd.group, commands |-> <<cmd.name>>])
    IN  FoldSeq(add, <<>>, commands)

\* the Config the start action passes to the ProcessManager
loadConfig(input) ==
    [commands |-> input.commands,
     groups |-> IF input.explicit.given THEN input.explicit.groups
                ELSE autoGroups(input.commands)]

allItems(config) ==
    <<null>>
        \o FoldSeq(LAMBDA items, g : items \o <<"group:" \o g.name>> \o g.commands,
                   <<>>, config.groups)
        \o FoldSeq(LAMBDA items, cmd : IF cmd.group = NoGroup THEN Append(items, cmd.name)
                                       ELSE items,
                   <<>>, config.commands)

\* Array.prototype.indexOf, counting from 0
indexOf(items, x) ==
    IF x \in Range(items)
    THEN (CHOOSE i \in DOMAIN items : items[i] = x /\ \A j \in 1..(i - 1) : items[j] # x) - 1
    ELSE -1

navigateFilter(config, filter, direction) ==
    LET items == allItems(config)
        currentIndex == indexOf(items, filter)
    IN  IF direction = "up"
        THEN IF currentIndex > 0 THEN items[currentIndex] ELSE items[Len(items)]
        ELSE IF currentIndex < Len(items) - 1 THEN items[currentIndex + 2] ELSE items[1]

InitNav ==
    /\ navCfg \in {loadConfig(input) : input \in NavInputs}
    /\ currentFilter = null
    /\ navDowns = 0
    /\ navUps = 0
    /\ IdleLife /\ IdleSort /\ IdleSearch /\ IdleFile /\ IdleShut

\* the 'down' key in normal mode, while the walk is going down
KeyDown ==
    /\ navUps = 0
    /\ navDowns < MaxNav
    /\ currentFilter' = navigateFilter(navCfg, currentFilter, "down")
    /\ navDowns' = navDowns + 1
    /\ UNCHANGED <<navCfg, navUps, lifeVars, sortVars, searchVars, fileVars, shutVars>>

\* the 'up' key in normal mode, until the walk has gone up as often as down
KeyUp ==
    /\ navUps < navDowns
    /\ currentFilter' = navigateFilter(navCfg, currentFilter, "up")
    /\ navUps' = navUps + 1
    /\ UNCHANGED <<navCfg, navDowns, lifeVars, sortVars, searchVars, fileVars, shutVars>>

NextNav == KeyDown \/ KeyUp

SpecNav == InitNav /\ [][NextNav]_vars

(***************************************************************************)
(* C8  For every configuration the loader can produce and every N >= 0,    *)
(* starting from the selection ALL (null), N 'down' steps followed by N    *)
(* 'up' steps end with the selection at ALL (null) again.                  *)
(***************************************************************************)
C8_DownThenUp == navUps = navDowns => currentFilter = null

(***************************************************************************)
(* SpecSearch: the search box and filterLogs.  A string is the sequence of *)
(* its characters, so that lower-casing and substring search are computed. *)
(***************************************************************************)
\* characters in the search box
MaxSearchLen == 2
\* log entries on the screen
MaxFilterLogs == 2

\* the characters the operator types
KeyChars == {"a", "B", "("}
\* the entries the log buffers hold
LogEntries ==
    {[name |-> <<"A", "b">>, data |-> <<"(", "a">>],
     [name |-> <<"b">>, data |-> <<"B", "a">>],
     [name |-> <<"b">>, data |-> <<>>]}

\* String.prototype.toLowerCase over the characters in use
toLowerCase(str) ==
    [i \in DOMAIN str |-> CASE str[i] = "A" -> "a" [] str[i] = "B" -> "b" [] OTHER -> str[i]]
\* String.prototype.includes
includes(str, part) ==
    \E k \in 0..(Len(str) - Len(part)) : SubSeq(str, k + 1, k + Len(part)) = part

filterLogsExact(logs, text) ==
    IF text = <<>> THEN logs
    ELSE SelectSeq(logs, LAMBDA log : includes(log.data, text) \/ includes(log.name, text))

filterLogs(logs, text) ==
    IF text = <<>> THEN logs
    ELSE SelectSeq(logs, LAMBDA log :
             \/ includes(toLowerCase(log.data), toLowerCase(text))
             \/ includes(toLowerCase(log.name), toLowerCase(text)))

InitSearch ==
    /\ searchMode = FALSE
    /\ searchText = <<>>
    /\ searchBuffer = <<>>
    /\ filterIn \in SeqsUpTo(LogEntries, MaxFilterLogs)
    /\ filterOut = filterIn
    /\ IdleLife /\ IdleSort /\ IdleNav /\ IdleFile /\ IdleShut

\* onUpdate: the screen is redrawn with the logs that pass the search text
onUpdate == filterOut' = filterLogs(filterIn, searchText')

\* toggleSearch without the reset of the two texts
toggleSearchKeepText ==
    /\ ~exited
    /\ searchMode' = ~searchMode
    /\ UNCHANGED <<searchText, searchBuffer>>
    /\ UNCHANGED <<filterIn, lifeVars, sortVars, navVars, fileVars, shutVars>>
    /\ onUpdate

\* SearchManager.toggleSearch
toggleSearch ==
    /\ ~exited
    /\ searchMode' = ~searchMode
    /\ IF ~searchMode'
       THEN searchText' = <<>> /\ searchBuffer' = <<>>
       ELSE UNCHANGED <<searchText, searchBuffer>>
    /\ UNCHANGED <<filterIn, lifeVars, sortVars, navVars, fileVars, shutVars>>
    /\ onUpdate

\* 'f' in normal mode
KeyF == ~searchMode /\ toggleSearch

\* escape in search mode (Ctrl+C in search mode does the same: KeyCtrlC)
KeyEscape == searchMode /\ toggleSearch

\* return in search mode: submitSearch
KeyReturn ==
    /\ searchMode
    /\ searchText' = searchBuffer
    /\ UNCHANGED <<searchMode, searchBuffer, filterIn, lifeVars, sortVars, navVars, fileVars, shutVars>>
    /\ onUpdate

\* backspace in search mode
KeyBackspace ==
    /\ searchMode
    /\ searchBuffer' = SubSeq(searchBuffer, 1, Len(searchBuffer) - 1)
    /\ UNCHANGED <<searchMode, searchText, filterIn, lifeVars, sortVars, navVars, fileVars, shutVars>>
    /\ onUpdate

\* a printable key in search mode
KeyChar(str) ==
    /\ searchMode
    /\ Len(searchBuffer) < MaxSearchLen
    /\ searchBuffer' = Append(searchBuffer, str)
    /\ UNCHANGED <<searchMode, searchText, filterIn, lifeVars, sortVars, navVars, fileVars, shutVars>>
    /\ onUpdate

NextSearch ==
    \/ KeyF
    \/ KeyEscape
    \/ KeyReturn
    \/ KeyBackspace
    \/ \E str \in KeyChars : KeyChar(str)

SpecSearch == InitSearch /\ [][NextSearch]_vars

\* the same character, or the same letter in the other case
SameLetter(x, y) == x = y \/ {x, y} \in {{"a", "A"}, {"b", "B"}}
ContainsIgnoringCase(str, part) ==
    \E k \in 0..(Len(str) - Len(part)) : \A i \in 1..Len(part) : SameLetter(str[k + i], part[i])
MatchesSearch(log, text) ==
    ContainsIgnoringCase(log.name, text) \/ ContainsIgnoringCase(log.data, text)

(***************************************************************************)
(* C9  The logs shown are exactly the input entries, in input order, whose *)
(* process name or text contains the search text as a case-insensitive     *)
(* substring, every character of the search text standing for itself; with *)
(* an empty search text they are the input unchanged.                      *)
(***************************************************************************)
C9_FilterLogs ==
    LET kept == {i \in DOMAIN filterIn : MatchesSearch(filterIn[i], searchText)}
        nth(k) == CHOOSE i \in kept : Cardinality({j \in kept : j <= i}) = k
    IN  /\ searchText = <<>> => filterOut = filterIn
        /\ Len(filterOut) = Cardinality(kept)
        /\ \A k \in DOMAIN filterOut : filterOut[k] = filterIn[nth(k)]

\* a search in the other case than the entry it keeps, which drops another entry
C9_Witness ==
    /\ searchText = <<"B", "a">>
    /\ filterIn = <<[name |-> <<"A", "b">>, data |-> <<"(", "a">>],
                    [name |-> <<"b">>, data |-> <<"B", "a">>]>>
    /\ filterOut = <<[name |-> <<"b">>, data |-> <<"B", "a">>]>>

(***************************************************************************)
(* SpecLog: the LogManager with a log file.  Chunks are appended for two   *)
(* commands, the clock may or may not advance between two appends, and the *)
(* log file may stop and start accepting writes.                           *)
(***************************************************************************)
\* chunks appended in a run
MaxLogAppends == 3

\* the commands in declaration order; "1" is an integer-like name
LogNames == <<"b", "1">>
\* property names that are array indices, with their numeric value
IndexValue == [k \in {"1", "2"} |-> IF k = "1" THEN 1 ELSE 2]
\* chunks of process output: one line, and two lines each ended by a newline
Texts == {<<"x">>, <<"x", "\n", "y", "\n">>}
LogFilePath == "sinfonia.log"

LogCur == [logBuffers |-> logBuffers, appended |-> appended, logFile |-> logFile,
           logFlushInterval |-> logFlushInterval, logQueue |-> logQueue,
           isWritingLogs |-> isWritingLogs, written |-> written]

\* the catch block of addLog and of flushLogs
disableFileLogging(L) == [L EXCEPT !.logFile = null, !.logFlushInterval = FALSE]

addLogAtKeepFile(L, name, data, timestamp, writable) ==
    LET pushed == Append(L.logBuffers[name],
                         [data |-> data, timestamp |-> timestamp,
                          n |-> L.appended[name] + 1])
        buffer == IF Len(pushed) > maxLogsPerProcess THEN Tail(pushed) ELSE pushed
        M == [L EXCEPT !.logBuffers[name] = buffer, !.appended[name] = @ + 1]
    IN  IF M.logFile = null THEN M
        ELSE IF writable THEN [M EXCEPT !.written = @ + 1]
        ELSE M

\* LogManager.addLog with the clock reading timestamp; appendFileSync throws
\* when the file is not writable
addLogAt(L, name, data, timestamp, writable) ==
    LET pushed == Append(L.logBuffers[name],
                         [data |-> data, timestamp |-> timestamp,
                          n |-> L.appended[name] + 1])
        buffer == IF Len(pushed) > maxLogsPerProcess THEN Tail(pushed) ELSE pushed
        M == [L EXCEPT !.logBuffers[name] = buffer, !.appended[name] = @ + 1]
    IN  IF M.logFile = null THEN M
        ELSE IF writable THEN [M EXCEPT !.written = @ + 1]
        ELSE disableFileLogging(M)

\* LogManager.flushLogs
flushLogs(L, writable) ==
    IF L.isWritingLogs \/ L.logQueue = <<>> \/ L.logFile = null THEN L
    ELSE LET W == [L EXCEPT !.isWritingLogs = TRUE, !.logQueue = <<>>]
             D == IF writable THEN [W EXCEPT !.written = @ + Len(L.logQueue)]
                  ELSE disableFileLogging(W)
         IN  [D EXCEPT !.isWritingLogs = FALSE]

\* Object.entries: array-index keys ascending, then the other keys as inserted
ownKeys(names) ==
    LET index == {k \in Range(names) : k \in DOMAIN IndexValue}
        before(k) == Cardinality({j \in index : IndexValue[j] < IndexValue[k]})
        indexKeys == [i \in 1..Cardinality(index) |->
                         CHOOSE k \in index : before(k) = i - 1]
    IN  indexKeys \o SelectSeq(names, LAMBDA k : k \notin index)

\* flatMap: the entries of each buffer with the buffer's name
flatEntries(L, keys) ==
    FoldSeq(LAMBDA acc, name :
                acc \o [i \in DOMAIN L.logBuffers[name] |->
                           [name |-> name, data |-> L.logBuffers[name][i].data,
                            timestamp |-> L.logBuffers[name][i].timestamp,
                            n |-> L.logBuffers[name][i].n]],
            <<>>, keys)

\* Array.prototype.sort by timestamp: stable
insertLast(sorted, entry) ==
    LET p == Cardinality({i \in DOMAIN sorted : sorted[i].timestamp <= entry.timestamp})
    IN  SubSeq(sorted, 1, p) \o <<entry>> \o SubSeq(sorted, p + 1, Len(sorted))
insertFirst(sorted, entry) ==
    LET p == Cardinality({i \in DOMAIN sorted : sorted[i].timestamp < entry.timestamp})
    IN  SubSeq(sorted, 1, p) \o <<entry>> \o SubSeq(sorted, p + 1, Len(sorted))

getAllLogsUnstable(L) ==
    FoldSeq(insertFirst, <<>>, flatEntries(L, ownKeys(LogNames)))

\* LogManager.getAllLogs
getAllLogs(L) ==
    FoldSeq(insertLast, <<>>, flatEntries(L, ownKeys(LogNames)))

CommitLog(L) ==
    /\ logBuffers' = L.logBuffers
    /\ appended' = L.appended
    /\ logFile' = L.logFile
    /\ logFlushInterval' = L.logFlushInterval
    /\ logQueue' = L.logQueue
    /\ isWritingLogs' = L.isWritingLogs
    /\ written' = L.written

\* new ProcessManager(commands, groups, maxLogsPerProcess, logFile) with a log file
InitLog ==
    /\ cfg = 1
    /\ started = FALSE
    /\ instances = [n \in Range(LogNames) |-> <<>>]
    /\ processes = [n \in Range(LogNames) |-> 0]
    /\ processStates = [n \in Range(LogNames) |-> "running"]
    /\ dependencyReady = [n \in Range(LogNames) |-> {}]
    /\ fresh = {}
    /\ pendingProcesses = <<>>
    /\ logBuffers = [n \in Range(LogNames) |-> <<>>]
    /\ appended = [n \in Range(LogNames) |-> 0]
    /\ logFile = LogFilePath /\ logFlushInterval = TRUE /\ logQueue = <<>>
    /\ isWritingLogs = FALSE /\ logPromiseQueue = <<>> /\ writing = <<>>
    /\ fileWritable = TRUE /\ written = 0 /\ now = 0
    /\ queued = <<>> /\ disk = <<>>
    /\ IdleSort /\ IdleNav /\ IdleSearch /\ IdleShut

LogFrame ==
    UNCHANGED <<cfg, started, instances, processes, processStates, dependencyReady, fresh,
                pendingProcesses, logPromiseQueue, writing, queued, disk,
                sortVars, navVars, searchVars, shutVars>>

Appended == FoldSeq(LAMBDA sum, n : sum + appended[n], 0, LogNames)

\* addLog(name, text, color) for a chunk of output of name
LogAppend(name) ==
    \E text \in Texts : \E timestamp \in {now, now + 1} :
        /\ Appended < MaxLogAppends
        /\ now' = timestamp
        /\ CommitLog(addLogAt(LogCur, name, text, timestamp, fileWritable))
        /\ UNCHANGED fileWritable
        /\ LogFrame

\* the callback of the flush timer
TimerFlush ==
    /\ logFlushInterval
    /\ CommitLog(flushLogs(LogCur, fileWritable))
    /\ UNCHANGED <<fileWritable, now>>
    /\ LogFrame

\* the log file becomes read-only, or writable again
Chmod ==
    /\ fileWritable' = ~fileWritable
    /\ UNCHANGED <<logBuffers, appended, logFile, logFlushInterval, logQueue,
                   isWritingLogs, written, now>>
    /\ LogFrame

NextLog ==
    \/ \E name \in Range(LogNames) : LogAppend(name)
    \/ TimerFlush
    \/ Chmod

SpecLog == InitLog /\ [][NextLog]_vars

(***************************************************************************)
(* C14  After a log-file write failure file logging is disabled (log path  *)
(* cleared, flush timer cancelled) and is never enabled again; every       *)
(* append, before or after, still adds its entry to the ring buffer.       *)
(***************************************************************************)
C14_WriteFailureDisables ==
    [][/\ logFile = null => logFile' = null /\ ~logFlushInterval' /\ written' = written
       /\ \A name \in Range(LogNames) :
              appended'[name] # appended[name] =>
                  /\ appended'[name] = appended[name] + 1
                  /\ logBuffers'[name] # <<>>
                  /\ logBuffers'[name][Len(logBuffers'[name])].n = appended'[name]
                  /\ (logFile # null /\ ~fileWritable) =>
                         logFile' = null /\ ~logFlushInterval']_vars

\* a write succeeded, a later one failed, and a chunk was appended after that
C14_Witness ==
    /\ logFile = null
    /\ written = 1
    /\ Appended = 3

(***************************************************************************)
(* Vocabulary of the merged log view.                                      *)
(***************************************************************************)
AllLogs == getAllLogs(LogCur)
Held ==
    UNION {{[name |-> name, data |-> logBuffers[name][i].data,
             timestamp |-> logBuffers[name][i].timestamp,
             n |-> logBuffers[name][i].n] : i \in DOMAIN logBuffers[name]} :
               name \in Range(LogNames)}
IntegerLike(name) == name \in DOMAIN IndexValue
Declared(name) == CHOOSE i \in DOMAIN LogNames : LogNames[i] = name
\* the buffer of a is met before the buffer of b: in declaration order ...
DeclaredBefore(a, b) == Declared(a) < Declared(b)
\* ... and in the key order of the logBuffers object
KeyBefore(a, b) ==
    \/ IntegerLike(a) /\ ~IntegerLike(b)
    \/ IntegerLike(a) /\ IntegerLike(b) /\ IndexValue[a] < IndexValue[b]
    \/ ~IntegerLike(a) /\ ~IntegerLike(b) /\ Declared(a) < Declared(b)
ExactlyOnceAscending ==
    /\ Len(AllLogs) = Cardinality(Held)
    /\ Range(AllLogs) = Held
    /\ \A i \in DOMAIN AllLogs : \A j \in DOMAIN AllLogs :
           i < j => AllLogs[i].timestamp <= AllLogs[j].timestamp
SameProcessInsertionOrder ==
    \A i \in DOMAIN AllLogs : \A j \in DOMAIN AllLogs :
        (i < j /\ AllLogs[i].name = AllLogs[j].name) => AllLogs[i].n < AllLogs[j].n

NonEmptyLines(text) ==
    Cardinality({i \in DOMAIN text : text[i] # "\n" /\ (i = 1 \/ text[i - 1] = "\n")})

C17_AppendSplitsLines ==
    \A name \in Range(LogNames) : \A text \in Texts :
        LET L == addLogAt(LogCur, name, text, now, fileWritable)
        IN  L.appended[name] = appended[name] + NonEmptyLines(text)

(***************************************************************************)
(* SpecFlush: the file-logging pipeline of the single-file ProcessManager  *)
(* (src/index.ts).  addLog chains a push of the formatted entry, the timer *)
(* chains a flush, flushLogs awaits appendFile.  A handler runs together   *)
(* with the chained tasks that can run after it; the chain stops at a task *)
(* that awaits a write and goes on when the write has completed.           *)
(***************************************************************************)
\* chunks appended in a run
MaxFlushAppends == 3
\* chained tasks waiting behind a write
MaxChain == 2
\* logQueue length above which a push flushes at once (1000 in the code)
HighWater == 1

FlushCur == [logBuffers |-> logBuffers, appended |-> appended, logFile |-> logFile,
             logFlushInterval |-> logFlushInterval, logQueue |-> logQueue,
             isWritingLogs |-> isWritingLogs, written |-> written,
             logPromiseQueue |-> logPromiseQueue, writing |-> writing,
             queued |-> queued, disk |-> disk]

\* flushLogs that hands the queue to appendFile and keeps it
flushLogsStartKeepQueue(S) ==
    IF S.isWritingLogs \/ S.logQueue = <<>> \/ S.logFile = null THEN S
    ELSE [S EXCEPT !.isWritingLogs = TRUE,
                   !.writing = Append(@, S.logQueue)]

\* flushLogs up to its await: the guard, then appendFile is called
flushLogsStart(S) ==
    IF S.isWritingLogs \/ S.logQueue = <<>> \/ S.logFile = null THEN S
    ELSE [S EXCEPT !.isWritingLogs = TRUE,
                   !.writing = Append(@, S.logQueue),
                   !.logQueue = <<>>]

\* flushLogs after its await: catch on an error, then finally
flushLogsSettle(S, ok) ==
    LET W == [S EXCEPT !.writing = Tail(@)]
        D == IF ok THEN [W EXCEPT !.written = @ + Len(Head(S.writing)),
                                  !.disk = @ \o Head(S.writing)]
             ELSE disableFileLogging(W)
    IN  [D EXCEPT !.isWritingLogs = FALSE]

\* logPromiseQueue = logPromiseQueue.then(task)
then(S, task) == [S EXCEPT !.logPromiseQueue = Append(@, task)]

\* queueLog
queueLog(S, logEntry) ==
    then([S EXCEPT !.queued = Append(@, logEntry)], [kind |-> "push", logEntry |-> logEntry])

\* the body of a chained task, up to its await
runTask(S, task) ==
    IF task.kind = "push"
    THEN LET P == [S EXCEPT !.logQueue = Append(@, task.logEntry)]
         IN  IF Len(P.logQueue) > HighWater THEN flushLogsStart(P) ELSE P
    ELSE flushLogsStart(S)

RECURSIVE drainNoHold(_)
drainNoHold(S) ==
    IF S.logPromiseQueue = <<>> THEN S
    ELSE drainNoHold(runTask([S EXCEPT !.logPromiseQueue = Tail(@)],
                             Head(S.logPromiseQueue)))

\* the chained tasks run in order; a task that awaits a write holds the chain
RECURSIVE drain(_)
drain(S) ==
    IF S.logPromiseQueue = <<>> \/ S.writing # <<>> THEN S
    ELSE drain(runTask([S EXCEPT !.logPromiseQueue = Tail(@)], Head(S.logPromiseQueue)))

\* addLog of the single-file ProcessManager
addLogQueued(S, name, data, timestamp) ==
    LET n == S.appended[name] + 1
        pushed == Append(S.logBuffers[name],
                         [data |-> data, timestamp |-> timestamp, n |-> n])
        buffer == IF Len(pushed) > maxLogsPerProcess THEN Tail(pushed) ELSE pushed
        M == [S EXCEPT !.logBuffers[name] = buffer, !.appended[name] = n]
    IN  IF M.logFile = null THEN M ELSE queueLog(M, <<name, n>>)

CommitFlush(S) ==
    /\ CommitLog(S)
    /\ logPromiseQueue' = S.logPromiseQueue
    /\ writing' = S.writing
    /\ queued' = S.queued
    /\ disk' = S.disk

FlushFrame ==
    UNCHANGED <<cfg, started, instances, processes, processStates, dependencyReady, fresh,
                pendingProcesses, sortVars, navVars, searchVars>>

\* a chunk of output of name is logged
FlushAppend(name) ==
    /\ ~exited
    /\ Appended < MaxFlushAppends
    /\ CommitFlush(drain(addLogQueued(FlushCur, name, <<"x">>, now)))
    /\ UNCHANGED <<fileWritable, now, shutVars>>
    /\ FlushFrame

\* the callback of the flush timer
FlushTimer ==
    /\ ~exited
    /\ logFlushInterval
    /\ Len(logPromiseQueue) < MaxChain
    /\ CommitFlush(drain(then(FlushCur, [kind |-> "flush"])))
    /\ UNCHANGED <<fileWritable, now, shutVars>>
    /\ FlushFrame

\* the callback of appendFile: the write in flight has ended
WriteDone ==
    /\ ~exited
    /\ writing # <<>>
    /\ CommitFlush(drain(flushLogsSettle(FlushCur, fileWritable)))
    /\ UNCHANGED <<fileWritable, now, shutVars>>
    /\ FlushFrame

\* the log file becomes read-only, or writable again
FlushChmod == ~exited /\ Chmod

\* cleanup of the single-file ProcessManager: the final flush is chained, and
\* the finally block exits the process before a chained task can run
FlushShutdown ==
    /\ ~exited
    /\ ~isCleaningUp
    /\ isCleaningUp' = TRUE
    /\ logFlushInterval' = FALSE
    /\ timerCancels' = IF logFlushInterval THEN timerCancels + 1 ELSE timerCancels
    /\ dumps' = dumps + 1
    /\ logPromiseQueue' = IF logQueue # <<>> /\ logFile # null
                          THEN Append(logPromiseQueue, [kind |-> "flush"])
                          ELSE logPromiseQueue
    /\ exited' = TRUE
    /\ UNCHANGED <<logBuffers, appended, logFile, logQueue, isWritingLogs, written,
                   writing, fileWritable, queued, disk, now, termSignals>>
    /\ FlushFrame

NextFlush ==
    \/ \E name \in Range(LogNames) : FlushAppend(name)
    \/ FlushTimer
    \/ WriteDone
    \/ FlushChmod
    \/ FlushShutdown

SpecFlush == InitLog /\ [][NextFlush]_vars

ShutConfigs == {2}
ShutdownTriggers == {"uncaughtException", "unhandledRejection", "SIGINT", "SIGTERM"}

ShutCur == [instances |-> instances, processes |-> processes,
            processStates |-> processStates, dependencyReady |-> dependencyReady,
            pendingProcesses |-> pendingProcesses, logBuffers |-> logBuffers,
            appended |-> appended, logFlushInterval |-> logFlushInterval,
            isCleaningUp |-> isCleaningUp, exited |-> exited,
            timerCancels |-> timerCancels, termSignals |-> termSignals,
            dumps |-> dumps]

\* LogManager.cleanup
logManagerCleanup(S) ==
    IF S.logFlushInterval
    THEN [S EXCEPT !.logFlushInterval = FALSE, !.timerCancels = @ + 1]
    ELSE S

lifecycleCleanupKillOnly(S) ==
    FoldSeq(LAMBDA acc, name :
                IF acc.processes[name] = 0 THEN acc
                ELSE [kill(acc, name) EXCEPT !.termSignals = @ + 1],
            S, Commands)

\* LifecycleManager.cleanup: SIGTERM to every tracked process, marked stopped
lifecycleCleanup(S) ==
    FoldSeq(LAMBDA acc, name :
                IF acc.processes[name] = 0 THEN acc
                ELSE [kill(acc, name) EXCEPT !.processStates[name] = "stopped",
                                             !.termSignals = @ + 1],
            S, Commands)

\* the try block of ProcessManager.cleanup: timer, processes, terminal, dump
cleanupEffects(S) ==
    [lifecycleCleanup(logManagerCleanup(S)) EXCEPT !.dumps = @ + 1]

\* the 'exit' listener: cleanup() unless one is under way; the process.exit
\* of that cleanup finds the process exiting already
exitHook(S) ==
    IF S.isCleaningUp THEN S
    ELSE cleanupEffects([S EXCEPT !.isCleaningUp = TRUE])

\* process.exit: the 'exit' listeners run, then the process ends
processExit(S) == [exitHook(S) EXCEPT !.exited = TRUE]

cleanupNoFlag(S) ==
    IF S.isCleaningUp THEN S
    ELSE processExit(cleanupEffects(S))

\* ProcessManager.cleanup
cleanup(S) ==
    IF S.isCleaningUp THEN S
    ELSE processExit(cleanupEffects([S EXCEPT !.isCleaningUp = TRUE]))

CommitShut(S) ==
    /\ ~exited
    /\ instances' = S.instances
    /\ processes' = S.processes
    /\ processStates' = S.processStates
    /\ dependencyReady' = S.dependencyReady
    /\ fresh' = Freshen(S, {})
    /\ pendingProcesses' = S.pendingProcesses
    /\ logBuffers' = S.logBuffers
    /\ appended' = S.appended
    /\ logFlushInterval' = S.logFlushInterval
    /\ isCleaningUp' = S.isCleaningUp
    /\ exited' = S.exited
    /\ timerCancels' = S.timerCancels
    /\ termSignals' = S.termSignals
    /\ dumps' = S.dumps
    /\ UNCHANGED <<cfg, started, logFile, logQueue, isWritingLogs, logPromiseQueue,
                   writing, fileWritable, queued, disk, written, now, sortVars, navVars,
                   searchVars>>

\* new ProcessManager(commands, groups, maxLogsPerProcess, logFile)
InitShutdown ==
    /\ cfg \in ShutConfigs
    /\ started = FALSE
    /\ instances = [n \in Names |-> <<>>]
    /\ processes = [n \in Names |-> 0]
    /\ processStates = [n \in Names |-> "running"]
    /\ dependencyReady = [n \in Names |-> {}]
    /\ fresh = {}
    /\ pendingProcesses = <<>>
    /\ logBuffers = [n \in Names |-> <<>>]
    /\ appended = [n \in Names |-> 0]
    /\ logFile = LogFilePath /\ logFlushInterval = TRUE /\ logQueue = <<>>
    /\ isWritingLogs = FALSE /\ logPromiseQueue = <<>> /\ writing = <<>>
    /\ fileWritable = TRUE /\ written = 0 /\ now = 0
    /\ queued = <<>> /\ disk = <<>>
    /\ IdleSort /\ IdleNav /\ IdleSearch /\ IdleShut

\* an uncaught exception, an unhandled rejection, SIGINT or SIGTERM
Shutdown(trigger) ==
    /\ started
    /\ CommitShut(cleanup(ShutCur))

\* the process exits without a cleanup before
ProcessExit ==
    /\ started
    /\ CommitShut(processExit(ShutCur))

\* Ctrl+C: leaves the search box in search mode, cleanup in normal mode
KeyCtrlC ==
    /\ started
    /\ IF searchMode THEN toggleSearch ELSE CommitShut(cleanup(ShutCur))

\* 'f' and escape once the keyboard is set up
ShutKeyF == started /\ KeyF
ShutKeyEscape == started /\ KeyEscape

NextShutdown ==
    \/ ManagerStart
    \/ \E name \in Names : Stdout(name)
    \/ \E name \in Names : Stderr(name)
    \/ \E name \in Names : ProcError(name)
    \/ \E name \in Names : Exit(name)
    \/ \E name \in Names : ToggleProcess(name)
    \/ \E name \in Names : RestartProcess(name)
    \/ TimerFlush
    \/ ShutKeyF
    \/ ShutKeyEscape
    \/ KeyCtrlC
    \/ \E trigger \in ShutdownTriggers : Shutdown(trigger)
    \/ ProcessExit

SpecShutdown == InitShutdown /\ [][NextShutdown]_vars

(***************************************************************************)
(* C18  Shutdown is a single idempotent cleanup path.  Whatever shutdown   *)
(* triggers occur, in whatever order, the timer is cancelled at most once, *)
(* each tracked process is sent the termination signal at most once, the   *)
(* buffered logs are dumped at most once, and a further call of cleanup    *)
(* changes nothing.                                                        *)
(***************************************************************************)
C18_CleanupOnce ==
    /\ timerCancels <= 1
    /\ termSignals <= Cardinality({name \in Names : processes[name] # 0})
    /\ dumps <= 1
    /\ isCleaningUp => cleanup(ShutCur) = ShutCur
    /\ isCleaningUp =>
           /\ dumps = 1
           /\ ~logFlushInterval
           /\ \A name \in Names : processes[name] # 0 =>
                  /\ processStates[name] = "stopped"
                  /\ instances[name][processes[name]] # "alive"

\* cleanup has run with the timer set and two processes tracked and alive
C18_Witness ==
    /\ exited
    /\ isCleaningUp
    /\ timerCancels = 1
    /\ termSignals = 2
    /\ dumps = 1
    /\ \E name \in Names : processes[name] # 0 /\ instances[name][processes[name]] = "signalled"

(***************************************************************************)
(* C19  A spawn error or exit of one process records a log entry for that  *)
(* process and sets its state to stopped; it leaves the recorded state,    *)
(* the tracked handle, the instances and the log buffer of every other     *)
(* process as they are, and it does not start the cleanup of the manager.  *)
(***************************************************************************)
Ended(name) ==
    \E i \in DOMAIN instances[name] :
        /\ instances[name][i] \in {"alive", "signalled"}
        /\ instances'[name][i] \notin {"alive", "signalled"}

C19_ErrorStaysLocal ==
    [][\A p \in Names :
          Ended(p) =>
              /\ appended'[p] = appended[p] + 1
              /\ logBuffers'[p][Len(logBuffers'[p])].n = appended'[p]
              /\ processStates'[p] = "stopped"
              /\ \A q \in Names \ {p} :
                     /\ processStates'[q] = processStates[q]
                     /\ processes'[q] = processes[q]
                     /\ instances'[q] = instances[q]
                     /\ logBuffers'[q] = logBuffers[q]
              /\ UNCHANGED shutVars]_vars

\* a process has failed to spawn or has exited while another one is alive
\* and recorded running, and no cleanup has begun
C19_Witness ==
    /\ ~isCleaningUp
    /\ \E p \in Names : \E q \in Names \ {p} :
           /\ \E i \in DOMAIN instances[p] : instances[p][i] \in {"failed"} \cup ExitCodes
           /\ processStates[p] = "stopped"
           /\ processes[q] # 0
           /\ instances[q][processes[q]] = "alive"
           /\ processStates[q] = "running"

(***************************************************************************)
(* C20  In normal mode and in search mode alike, a Ctrl+C key event        *)
(* initiates the cleanup.                                                  *)
(***************************************************************************)
C20_CtrlCShutsDown == [][KeyCtrlC => isCleaningUp']_vars

\* ---------------------------------------------------------------------------
\* The search box: Enter, Escape and 'f' (SpecSearch)

\* C21: pressing Enter in search mode commits the edit buffer as the active
\* search text and leaves search mode, so that the committed text is the
\* active filter once the search box is closed.
C21_EnterCommitsAndExits ==
    [][KeyReturn => (searchText' = searchBuffer /\ ~searchMode')]_vars

\* C24: a step that turns search mode off leaves the edit buffer and the
\* active search text empty; a step that turns it on changes neither.
C24_ToggleSearch ==
    [][/\ (searchMode /\ ~searchMode') => (searchText' = <<>> /\ searchBuffer' = <<>>)
       /\ (~searchMode /\ searchMode') => UNCHANGED <<searchText, searchBuffer>>]_vars

\* search mode is on with a committed search text and a non-empty edit buffer
\* that differs from it: the state in which toggling off has both to clear
C24_Witness ==
    /\ searchMode
    /\ searchText # <<>>
    /\ searchBuffer # <<>>
    /\ searchBuffer # searchText

\* ---------------------------------------------------------------------------
\* Restart and start attempts (Spec)

\* every dependency of name is satisfied
AllSatisfied(S, name) == \A dep \in Range(dependsOn(name)) : Satisfied(S, name, dep)

\* C22: restartProcess(name) on a tracked process whose dependencies are
\* satisfied signals the tracked instance without waiting for it to end and
\* spawns a new one: after the step the tracked handle is the new instance,
\* not the previous one, the previous one has been signalled but has not
\* been waited for, and the recorded state is running.
C22_RestartReplaces ==
    [][\A name \in Names :
          (RestartProcess(name) /\ Tracked(name) /\ AllSatisfied(Cur, name)) =>
              LET old == processes[name]
                  new == processes'[name]
              IN  /\ Len(instances'[name]) = Len(instances[name]) + 1
                  /\ new = Len(instances'[name])
                  /\ new # old
                  /\ instances'[name][new] = "alive"
                  /\ instances'[name][old] =
                        IF instances[name][old] = "alive" THEN "signalled"
                        ELSE instances[name][old]
                  /\ processStates'[name] = "running"]_vars

\* a command with a dependency was restarted while its tracked process was
\* alive: the previous instance is signalled and has not ended, the tracked
\* one is new and alive
C22_Witness ==
    \E name \in Names :
        /\ Len(dependsOn(name)) > 0
        /\ Len(instances[name]) >= 2
        /\ processes[name] = Len(instances[name])
        /\ instances[name][processes[name]] = "alive"
        /\ instances[name][processes[name] - 1] = "signalled"
        /\ processStates[name] = "running"
        /\ LastData(Cur, name) = <<"Process restarted">>

\* the dependencies of name that are not satisfied, in the order of dependsOn
Unsatisfied(S, name) == SelectSeq(dependsOn(name), LAMBDA dep : ~Satisfied(S, name, dep))

\* C23: a start attempt for a command with at least one unsatisfied
\* dependency, a dependency naming no configured command included, spawns
\* nothing, leaves the handle as it is, puts the command in the pending set
\* and appends one "Waiting for dependencies" entry that lists exactly the
\* unsatisfied dependencies; a command with a dependency that names no
\* configured command has never been spawned.
C23_UnsatisfiedGoesPending ==
    \A name \in Names :
        /\ Len(Unsatisfied(Cur, name)) > 0 =>
              LET S == startProcess(Cur, name)
              IN  /\ S.instances = instances
                  /\ S.processes = processes
                  /\ name \in Range(S.pendingProcesses)
                  /\ S.appended[name] = appended[name] + 1
                  /\ LastData(S, name) =
                        <<"Waiting for dependencies">> \o Unsatisfied(Cur, name)
        /\ (\E dep \in Range(dependsOn(name)) : dep \notin Names) => ~Spawned(name)

\* after the start of the manager and a stop and a start of another command,
\* a command whose dependency names no configured command is pending and
\* has no process, and its last log entry lists that dependency
C23_Witness ==
    \E name \in Names :
        /\ started
        /\ Unknown \in Range(dependsOn(name))
        /\ Pending(name)
        /\ ~Tracked(name)
        /\ ~Spawned(name)
        /\ appended[name] = 1
        /\ LastData(Cur, name) = <<"Waiting for dependencies", Unknown>>
        /\ \E other \in Names : Len(instances[other]) >= 2

\* ---------------------------------------------------------------------------
\* The exit notification of a dependency (Spec)

\* C26: the delivery of the exit notification of a process D kills, stops,
\* restarts and re-queues nothing: the step changes D's recorded state, D's
\* log buffer and the seen-ready flag for D of the commands depending on D;
\* the other seen-ready flags, the other commands' recorded states, log
\* buffers and instances, every handle and the pending set are unchanged.
C26_NoCascade ==
    [][\A D \in Names :
          Exit(D) =>
              /\ processStates'[D] = "stopped"
              /\ \A n \in Names \ {D} :
                    /\ processStates'[n] = processStates[n]
                    /\ instances'[n] = instances[n]
                    /\ logBuffers'[n] = logBuffers[n]
              /\ Len(instances'[D]) = Len(instances[D])
              /\ \A i \in DOMAIN instances[D] :
                    instances'[D][i] \in {instances[D][i]} \cup ExitCodes \cup Signals
              /\ processes' = processes
              /\ pendingProcesses' = pendingProcesses
              /\ \A c \in Names :
                    /\ dependencyReady'[c] \ {D} = dependencyReady[c] \ {D}
                    /\ dependencyReady'[c] \subseteq dependencyReady[c]
                    /\ D \in Range(dependsOn(c)) => D \notin dependencyReady'[c]]_vars

\* a dependency has exited after its dependent was started on its ready
\* line: the dependent still runs with its process alive and has lost its
\* flag for the dependency
C26_Witness ==
    \E D \in Names : \E c \in Names :
        /\ hasReadyPattern(c, D)
        /\ processStates[D] = "stopped"
        /\ Head(LastData(Cur, D)) = "Process exited with code"
        /\ D \notin dependencyReady[c]
        /\ Tracked(c)
        /\ instances[c][processes[c]] = "alive"
        /\ processStates[c] = "running"

\* ---------------------------------------------------------------------------
\* Output chunks and the ready patterns (Spec)

\* the step appends a chunk of dep, from stdout or stderr, that matches
\* name's readyPattern for dep
ChunkInStep(dep, name) ==
    \E j \in DOMAIN logBuffers'[dep] :
        /\ logBuffers'[dep][j].n > appended[dep]
        /\ Head(logBuffers'[dep][j].data) \in {"stdout", "stderr"}
        /\ name \in Range(Tail(logBuffers'[dep][j].data))

\* the state after the step, as a record
CurNext == [instances |-> instances', processes |-> processes',
            processStates |-> processStates', dependencyReady |-> dependencyReady',
            pendingProcesses |-> pendingProcesses', logBuffers |-> logBuffers',
            appended |-> appended']

\* C29: every output chunk of D appended to the log store, from stdout or
\* from stderr, is tested against the readyPattern of every command that
\* depends on D and has a pattern for it: when it matches, that command's
\* seen-ready flag for D is set and a recheck pass runs, so that the command,
\* if it was pending and has all its dependencies satisfied, is spawned.
C29_EveryChunkTested ==
    [][\A D \in Names : \A w \in PatternDependents(D) :
          ChunkInStep(D, w) =>
              /\ D \in dependencyReady'[w]
              /\ (Pending(w) /\ AllSatisfied(CurNext, w)) => SpawnedInStep(w)]_vars

\* ---------------------------------------------------------------------------
\* Readiness and the restarts of a dependency (Spec)

\* C25: readiness is per start of the dependency.  Whenever a command C
\* with a readyPattern for D is spawned, its seen-ready flag for D was set
\* by a matching line that the tracked process of D has written since D was
\* last started: a match of an earlier instance of D does not count once D
\* has been stopped and started again, however the exit notification of the
\* earlier instance is interleaved.
C25_ReadyPerStart ==
    [][\A C \in Names : \A D \in Range(dependsOn(C)) :
          (hasReadyPattern(C, D) /\ SpawnedInStep(C)) =>
              \/ <<C, D>> \in fresh'
              \/ <<C, D>> \in fresh /\ SpawnedInStep(D)]_vars

(***************************************************************************)
(* SpecPass: the lifecycle machine on the configuration in which a command *)
(* and one of its dependencies can both be pending (A depends on B, C on A  *)
(* and, with a readyPattern, on B) and on the plain chain (B depends on A, *)
(* C on B), with the start of the manager, the error notifications, the    *)
(* toggles and the stdout chunks, and a larger number of logged entries.   *)
(***************************************************************************)
MaxPassAppends == 6
PassConfigs == {1, 6}

InitPass == Init /\ cfg \in PassConfigs

PassStdout(name) ==
    \E i \in DOMAIN instances[name] : \E matched \in SUBSET PatternDependents(name) :
        /\ Emits(name, i)
        /\ CommitWithin(onStdout(Cur, name, matched),
                        IF i = processes[name] THEN {<<w, name>> : w \in matched} ELSE {},
                        MaxPassAppends)

PassError(name) ==
    \E i \in DOMAIN instances[name] :
        /\ Emits(name, i)
        /\ CommitWithin(onError([Cur EXCEPT !.instances[name][i] = "failed"], name), {},
                        MaxPassAppends)

PassToggle(name) ==
    /\ started
    /\ CommitWithin(toggleProcess(Cur, name), {}, MaxPassAppends)

NextPass ==
    \/ ManagerStart
    \/ \E name \in Names : PassStdout(name)
    \/ \E name \in Names : PassError(name)
    \/ \E name \in Names : PassToggle(name)

SpecPass == InitPass /\ [][NextPass]_vars

\* the state S with the live entries of the pending set only
Settled(S) == [S EXCEPT !.pendingProcesses = Compact(@)]

\* the seen-ready flags of the commands in matched set for dep
flagsSet(S, dep, matched) ==
    [S EXCEPT !.dependencyReady =
        [c \in Names |-> IF c \in matched THEN @[c] \cup {dep} ELSE @[c]]]

\* C27: the recheck pass is idempotent.  For a stdout chunk of D that
\* matches the patterns of one or more dependents, the passes the handler
\* starts, one per match and each before the one before has ended, spawn
\* each command at most once and leave the state that a single pass run
\* after the flags are set leaves; and one more pass right after them, with
\* no event between, changes nothing.
C27_RecheckIdempotent ==
    \A D \in Names : \A matched \in SUBSET PatternDependents(D) :
        (matched # {} /\ \E i \in DOMAIN instances[D] : Emits(D, i)) =>
            LET logged == addLog(Cur, D, ChunkData(matched))
                handled == onStdout(Cur, D, matched)
                single == startPendingProcesses(flagsSet(logged, D, matched))
            IN  /\ \A c \in Names : Len(handled.instances[c]) <= Len(instances[c]) + 1
                /\ Settled(handled) = Settled(single)
                /\ Settled(startPendingProcesses(handled)) = Settled(handled)
                /\ Settled(startPendingProcesses(single)) = Settled(single)

\* ---------------------------------------------------------------------------
\* The start attempts of ProcessManager.start (Spec)

\* position of x in the sequence s (0: absent)
Place(s, x) == IF x \in Range(s) THEN CHOOSE i \in DOMAIN s : s[i] = x ELSE 0

\* C28: at startup there is exactly one start attempt per configured
\* command, in the order the sort returns, each command after its direct
\* dependencies; an attempt that falls into the pending set neither blocks
\* nor skips the attempts after it: every command is then either spawned
\* once or pending with one "Waiting for dependencies" entry, and the
\* pending set is in the order of the attempts.
C28_StartupAttempts ==
    [][ManagerStart =>
          LET sorted == sortCommandsByDependencies(Commands, Configs[cfg].dependsOn)
              attempts == startAll(Cur, sorted).attempts
          IN  /\ attempts = sorted
              /\ Len(attempts) = Len(Commands)
              /\ Range(attempts) = Names
              /\ \A c \in Names : \A d \in Range(dependsOn(c)) \cap Names :
                     Place(attempts, d) < Place(attempts, c)
              /\ \A c \in Names :
                     \/ /\ Len(instances'[c]) = 1
                        /\ processes'[c] = 1
                        /\ c \notin Range(pendingProcesses')
                        /\ appended'[c] = 0
                     \/ /\ instances'[c] = <<>>
                        /\ c \in Range(pendingProcesses')
                        /\ appended'[c] = 1
                        /\ Head(logBuffers'[c][1].data) = "Waiting for dependencies"
              /\ \A i, j \in DOMAIN pendingProcesses' :
                     i < j => Place(attempts, pendingProcesses'[i])
                                < Place(attempts, pendingProcesses'[j])]_vars

\* right after the start of the manager a command is pending and a command
\* attempted after it has been spawned
C28_Witness ==
    /\ started
    /\ \A c \in Names : Len(instances[c]) <= 1 /\ appended[c] <= 1
    /\ \A c \in Names : Spawned(c) => instances[c] = <<"alive">>
    /\ \E p \in Names : \E c \in Names :
          LET sorted == sortCommandsByDependencies(Commands, Configs[cfg].dependsOn)
          IN  /\ Pending(p) /\ ~Spawned(p)
              /\ Spawned(c)
              /\ Place(sorted, p) < Place(sorted, c)

\* ---------------------------------------------------------------------------
\* The order of the lines in the log file (SpecFlush)

\* C30: lines reach the log file in FIFO order.  Every entry in the file
\* was enqueued, of two entries in the file the one enqueued first is the
\* one written first, within a batch and across batches, and no entry is in
\* the file twice, whatever the order of appends, timer callbacks and
\* completions of writes.
C30_FileOrderFIFO ==
    /\ \A i \in DOMAIN disk : disk[i] \in Range(queued)
    /\ \A i, j \in DOMAIN disk :
          i < j => /\ disk[i] # disk[j]
                   /\ Place(queued, disk[i]) < Place(queued, disk[j])

\* the file holds a first batch with entries of two commands, and a second
\* batch is in flight
C30_Witness ==
    /\ Len(disk) >= 2
    /\ disk[1][1] # disk[2][1]
    /\ writing # <<>>
    /\ Len(queued) > Len(disk)

\* ---------------------------------------------------------------------------
\* The walk over the flattened list (SpecNav)

\* C31: navigateFilter walks the flattened list [ALL, each group's token and
\* members, the ungrouped commands]: every 'down' moves the selection one
\* item on, from the last item to ALL, and every 'up' one item back, from
\* ALL to the last item.  A walk from ALL of d downs and then u ups
\* therefore stands on the item d - u places after ALL, counted round the
\* list.
C31_WalksTheList ==
    LET items == allItems(navCfg)
    IN  currentFilter = items[((navDowns - navUps) % Len(items)) + 1]

(***************************************************************************)
(* SpecView: the logs on the screen.  updateScreen takes the entries of    *)
(* getAllLogs, keeps those of the current selection and then those that    *)
(* pass the search text.  The operator walks the selection and uses the    *)
(* search box over a fixed list of buffered entries.                       *)
(***************************************************************************)
\* entries in the log buffers
MaxViewLogs == 2
\* the character the operator types
ViewChars == {"b"}
ViewData == {<<"a">>, <<"B">>}
GroupPrefix == "group:"
\* the names that may follow the prefix in a value of currentFilter
GroupSuffixes == {"g", "x"}

\* a name as the sequence of its characters
chars(name) ==
    CASE name = "a" -> <<"a">>
      [] name = "B" -> <<"B">>
      [] name = GroupPrefix \o "x" -> <<"g", "r", "o", "u", "p", ":", "x">>

\* config files: a group from the group field, an explicit group of two
\* commands, and a command whose name begins with the prefix of the tokens
ViewInputs ==
    {[commands |-> <<[name |-> "a", group |-> "g"], [name |-> "B", group |-> NoGroup]>>,
      explicit |-> [given |-> FALSE, groups |-> <<>>]],
     [commands |-> <<[name |-> "a", group |-> NoGroup], [name |-> "B", group |-> NoGroup]>>,
      explicit |-> [given |-> TRUE, groups |-> <<[name |-> "g", commands |-> <<"B">>]>>]],
     [commands |-> <<[name |-> "a", group |-> NoGroup],
                     [name |-> GroupPrefix \o "x", group |-> NoGroup]>>,
      explicit |-> [given |-> FALSE, groups |-> <<>>]]}

\* String.prototype.startsWith("group:") and replace("group:", "")
startsWithGroup(filter) == \E g \in GroupSuffixes : filter = GroupPrefix \o g
replaceGroup(filter) == CHOOSE g \in GroupSuffixes : filter = GroupPrefix \o g

\* updateScreen: the entries of the current selection
selectLogs(config, filter, logs) ==
    IF filter = null THEN logs
    ELSE IF startsWithGroup(filter)
    THEN LET groupName == replaceGroup(filter)
             found == {i \in DOMAIN config.groups : config.groups[i].name = groupName}
         IN  IF found = {} THEN logs
             ELSE LET group == config.groups[CHOOSE i \in found : \A j \in found : i <= j]
                  IN  SelectSeq(logs, LAMBDA log : log.name \in Range(group.commands))
    ELSE SelectSeq(logs, LAMBDA log : log.name = filter)

\* updateScreen: the selection, then filterLogs
visibleLogs(config, filter, logs, text) ==
    SelectSeq(selectLogs(config, filter, logs),
              LAMBDA log : filterLogs(<<[name |-> chars(log.name), data |-> log.data]>>, text)
                               # <<>>)

updateScreen == filterOut' = visibleLogs(navCfg, currentFilter', filterIn, searchText')

InitView ==
    /\ navCfg \in {loadConfig(input) : input \in ViewInputs}
    /\ currentFilter = null
    /\ navDowns = 0
    /\ navUps = 0
    /\ searchMode = FALSE
    /\ searchText = <<>>
    /\ searchBuffer = <<>>
    /\ filterIn \in SeqsUpTo([name : {navCfg.commands[i].name : i \in DOMAIN navCfg.commands},
                               data : ViewData], MaxViewLogs)
    /\ filterOut = filterIn
    /\ IdleLife /\ IdleSort /\ IdleFile /\ IdleShut

ViewFrame == UNCHANGED <<navCfg, navDowns, navUps, filterIn, lifeVars, sortVars, fileVars, shutVars>>

\* the 'down' and 'up' keys in normal mode
ViewDown ==
    /\ ~searchMode
    /\ currentFilter' = navigateFilter(navCfg, currentFilter, "down")
    /\ UNCHANGED <<searchMode, searchText, searchBuffer>>
    /\ ViewFrame
    /\ updateScreen

ViewUp ==
    /\ ~searchMode
    /\ currentFilter' = navigateFilter(navCfg, currentFilter, "up")
    /\ UNCHANGED <<searchMode, searchText, searchBuffer>>
    /\ ViewFrame
    /\ updateScreen

\* 'f' in normal mode, escape in search mode: toggleSearch
ViewToggleSearch ==
    /\ searchMode' = ~searchMode
    /\ IF ~searchMode'
       THEN searchText' = <<>> /\ searchBuffer' = <<>>
       ELSE UNCHANGED <<searchText, searchBuffer>>
    /\ UNCHANGED currentFilter
    /\ ViewFrame
    /\ updateScreen

\* return in search mode: submitSearch
ViewReturn ==
    /\ searchMode
    /\ searchText' = searchBuffer
    /\ UNCHANGED <<searchMode, searchBuffer, currentFilter>>
    /\ ViewFrame
    /\ updateScreen

\* a printable key in search mode
ViewChar(str) ==
    /\ searchMode
    /\ Len(searchBuffer) < MaxSearchLen
    /\ searchBuffer' = Append(searchBuffer, str)
    /\ UNCHANGED <<searchMode, searchText, currentFilter>>
    /\ ViewFrame
    /\ updateScreen

NextView ==
    \/ ViewDown
    \/ ViewUp
    \/ ViewToggleSearch
    \/ ViewReturn
    \/ \E str \in ViewChars : ViewChar(str)

SpecView == InitView /\ [][NextView]_vars

\* the entry's process is in the selection: every process under ALL, the
\* process itself under a command's name, the members under a group's token
InSelection(name) ==
    IF currentFilter = null THEN TRUE
    ELSE IF \E i \in DOMAIN navCfg.commands : navCfg.commands[i].name = currentFilter
    THEN name = currentFilter
    ELSE \E i \in DOMAIN navCfg.groups :
             /\ currentFilter = GroupPrefix \o navCfg.groups[i].name
             /\ name \in Range(navCfg.groups[i].commands)

\* C32: the logs on the screen are the logical AND of selection and search:
\* exactly the buffered entries whose process is in the current selection
\* and whose name or text contains the active search text; no entry of a
\* process outside the selection is shown.
C32_SelectionAndSearch ==
    /\ filterOut = SelectSeq(filterIn, LAMBDA log :
                       /\ InSelection(log.name)
                       /\ MatchesSearch([name |-> chars(log.name), data |-> log.data],
                                        searchText))
    /\ \A i \in DOMAIN filterOut : InSelection(filterOut[i].name)

(***************************************************************************)
(* C33  After LifecycleManager.cleanup every tracked process has been sent *)
(* the termination signal and its recorded state is stopped: applied in    *)
(* any reachable state, cleanup leaves no tracked instance alive, turns    *)
(* every tracked instance that was alive into a signalled one, calls kill  *)
(* once per tracked handle, and records every command with a tracked       *)
(* handle as stopped; the handles themselves are kept.                     *)
(***************************************************************************)
C33_CleanupStopsTracked ==
    LET T == lifecycleCleanup(ShutCur)
        tracked == {name \in Names : processes[name] # 0}
    IN  /\ T.processes = processes
        /\ T.termSignals = termSignals + Cardinality(tracked)
        /\ \A name \in tracked :
               /\ T.processStates[name] = "stopped"
               /\ T.instances[name][processes[name]] # "alive"
               /\ instances[name][processes[name]] = "alive"
                      => T.instances[name][processes[name]] = "signalled"
               /\ Len(T.instances[name]) = Len(instances[name])

\* cleanup has run with processes tracked and alive, and with a command
\* that never got a process and is left as it was
C33_Witness ==
    /\ isCleaningUp
    /\ termSignals >= 1
    /\ \E name \in Names :
           /\ processes[name] # 0
           /\ instances[name][processes[name]] = "signalled"
           /\ processStates[name] = "stopped"
    /\ \E name \in Names :
           /\ processes[name] = 0
           /\ name \in Range(pendingProcesses)
           /\ processStates[name] = "running"

(***************************************************************************)
(* C34  The exit notification of an instance that has been replaced does   *)
(* not alter the state recorded for its command: while the tracked         *)
(* instance of a command is alive and has not been signalled, the command  *)
(* is recorded running.                                                    *)
(***************************************************************************)
C34_StaleExitIgnored ==
    [][\A name \in Names :
          (/\ Exit(name)
           /\ Tracked(name)
           /\ instances[name][processes[name]] = "alive"
           /\ instances'[name][processes[name]] = "alive"
           /\ processStates[name] = "running")
              => processStates'[name] = "running"]_vars

(***************************************************************************)
(* C35  For each command at most one spawned instance exists that has      *)
(* neither ended nor been sent a termination signal.                       *)
(***************************************************************************)
C35_OneLiveInstance ==
    \A name \in Names :
        Cardinality({i \in DOMAIN instances[name] : instances[name][i] = "alive"}) <= 1

(***************************************************************************)
(* C36  Whenever a command is spawned, by the recheck pass or by a direct  *)
(* start, toggle or restart, it is not in the pending set afterwards: no   *)
(* command is pending while it is recorded running with its tracked        *)
(* instance alive.                                                         *)
(***************************************************************************)
C36_SpawnedNotPending ==
    [][\A name \in Names : SpawnedInStep(name) => name \notin Range(pendingProcesses')]_vars

(***************************************************************************)
(* C37  When the recheck pass completes, no command remains pending whose  *)
(* dependencies are all satisfied in the resulting state, in whatever      *)
(* order the commands were added to the pending set: after the stdout      *)
(* handler has run on a chunk that matches a pattern, every command still  *)
(* pending has an unsatisfied dependency.                                  *)
(***************************************************************************)
C37_PassLeavesOnlyBlocked ==
    \A D \in Names : \A matched \in SUBSET PatternDependents(D) :
        (matched # {} /\ \E i \in DOMAIN instances[D] : Emits(D, i)) =>
            LET handled == onStdout(Cur, D, matched)
            IN  \A c \in Range(Compact(handled.pendingProcesses)) :
                    ~AllSatisfied(handled, c)

(***************************************************************************)
(* C38  sortCommandsByDependencies terminates for every dependency graph,  *)
(* graphs with cycles, self-dependencies and dependencies on unknown names *)
(* included, and returns every configured command exactly once.            *)
(***************************************************************************)
C38_SortTotal ==
    LET result == sortCommandsByDependencies(Commands, sortIn)
    IN  /\ Len(result) = Len(Commands)
        /\ Range(result) = Names
        /\ \A i \in DOMAIN result : \A j \in DOMAIN result :
               result[i] = result[j] => i = j
        /\ sortOut # <<>> => sortOut = result

\* a sorted graph with a cycle of two commands, a command that depends on
\* itself and a dependency that names no command
C38_Witness ==
    /\ sortOut # <<>>
    /\ \E c \in Names : c \in Range(sortIn[c])
    /\ \E c \in Names : \E d \in Names \ {c} :
           c \in Range(sortIn[d]) /\ d \in Range(sortIn[c])
    /\ \E c \in Names : Unknown \in Range(sortIn[c])
    /\ Len(sortOut) = Len(Commands)

(***************************************************************************)
(* C39  toggleProcess and restartProcess on a command that has never been  *)
(* spawned (no tracked handle, for example one pending since startup)      *)
(* change nothing: no process is spawned or signalled, the recorded state  *)
(* and the pending set are unchanged and no log entry is appended.         *)
(***************************************************************************)
C39_UntrackedUntouched ==
    \A name \in Names :
        ~Tracked(name) =>
            /\ toggleProcess(Cur, name) = Cur
            /\ restartProcess(Cur, name) = Cur

\* a command pending since startup, never spawned, after another command
\* has been restarted
C39_Witness ==
    /\ started
    /\ \E name \in Names :
           /\ ~Tracked(name)
           /\ ~Spawned(name)
           /\ Pending(name)
           /\ Len(logBuffers[name]) = 1
    /\ \E other \in Names : Len(instances[other]) = 2

(***************************************************************************)
(* C40  On shutdown with file logging enabled and no write failure, every  *)
(* line handed to the disk queue before cleanup began is in the log file   *)
(* when the supervisor has exited: the final flush completes before exit.  *)
(***************************************************************************)
C40_FinalFlushBeforeExit ==
    (exited /\ logFile # null /\ fileWritable) => disk = queued

====
